---- MODULE Spec2Model ----
(***************************************************************************)
(* State-machine model of the TranslationEditor React component            *)
(* (src/src/features/TranslationEditor/TranslationEditor.tsx, the current  *)
(* version of the component, lines 300-659).                               *)
(*                                                                         *)
(* Strings are sequences of one-character strings, so that trim(),         *)
(* replace() and the integer-index test of property keys are computed.     *)
(* A JavaScript object is the sequence of its own properties in            *)
(* enumeration order.  State updates made by one handler are applied       *)
(* together and followed by one render (React batches them).               *)
(***************************************************************************)
EXTENDS Integers, Sequences, FiniteSets

\* ------------------------------------------------------------------ bounds
MaxRows    == 2   \* rows the table may hold
MaxUploads == 2   \* file selections in one behaviour

\* ----------------------------------------------------------------- strings
EmptyStr == <<>>
JsonExt  == <<".", "j", "s", "o", "n">>
ProtoKey == <<"_", "_", "p", "r", "o", "t", "o", "_", "_">>
LengthKey == <<"l", "e", "n", "g", "t", "h">>
DefaultName == <<"t", "r", "a", "n", "s", "l", "a", "t", "i", "o", "n", "s">>
\* the value `undefined` (a defaultMessage that is absent); it is no string
Undefined == <<"undefined">>

DigitChars == <<"0", "1", "2", "3", "4", "5", "6", "7", "8", "9">>

IsDigit(c) == \E i \in 1..Len(DigitChars) : DigitChars[i] = c

DigitVal(c) == (CHOOSE i \in 1..Len(DigitChars) : DigitChars[i] = c) - 1

\* Number.prototype.toString of a non-negative integer
RECURSIVE NumToString(_)
NumToString(n) ==
    IF n < Len(DigitChars) THEN <<DigitChars[n + 1]>>
    ELSE NumToString(n \div Len(DigitChars)) \o <<DigitChars[(n % Len(DigitChars)) + 1]>>

RECURSIVE TrimStart(_)
TrimStart(s) ==
    IF s /= EmptyStr /\ Head(s) = " " THEN TrimStart(Tail(s)) ELSE s

RECURSIVE TrimEnd(_)
TrimEnd(s) ==
    IF s /= EmptyStr /\ s[Len(s)] = " " THEN TrimEnd(SubSeq(s, 1, Len(s) - 1)) ELSE s

\* String.prototype.trim
Trim(s) == TrimEnd(TrimStart(s))

\* a property key that is an integer index ("0", "1", "12", not "01")
IsArrayIndex(k) ==
    /\ k /= EmptyStr
    /\ \A i \in 1..Len(k) : IsDigit(k[i])
    /\ (Len(k) = 1 \/ k[1] /= "0")

RECURSIVE NumVal(_)
NumVal(k) ==
    IF k = EmptyStr THEN 0
    ELSE NumVal(SubSeq(k, 1, Len(k) - 1)) * Len(DigitChars) + DigitVal(k[Len(k)])

\* ----------------------------------------------------------- JS objects
HasKey(props, k) == \E i \in 1..Len(props) : props[i].key = k

KeyIndex(props, k) == CHOOSE i \in 1..Len(props) : props[i].key = k

\* Creating or overwriting the own property k of an ordinary object: an
\* existing property keeps its place; a new integer index goes among the
\* integer indices in ascending order, which precede every other key; any
\* other new key goes last.
ObjSet(props, k, v) ==
    IF HasKey(props, k) THEN [props EXCEPT ![KeyIndex(props, k)].val = v]
    ELSE IF IsArrayIndex(k) THEN
        LET pos == Cardinality({i \in 1..Len(props) :
                        IsArrayIndex(props[i].key) /\ NumVal(props[i].key) < NumVal(k)})
        IN  SubSeq(props, 1, pos) \o <<[key |-> k, val |-> v]>>
                \o SubSeq(props, pos + 1, Len(props))
    ELSE Append(props, [key |-> k, val |-> v])

\* `acc[key] = value` on the accumulator `{}` of downloadJSON: the key
\* "__proto__" reaches the prototype setter of Object.prototype and creates
\* no own property.
AccSet(props, k, v) == IF k = ProtoKey THEN props ELSE ObjSet(props, k, v)

\* ------------------------------------------------------------------ JSON
\* A file content is the syntax tree of its text: kind "garbage" is text that
\* is no JSON; an object lists its members in text order (names may repeat);
\* an array or a string lists its elements under their indices.  A member
\* value is an object with a defaultMessage (Undefined when it has none),
\* null, a number or a string.
MsgVal(dm) == [kind |-> "object", dm |-> dm]
NullVal    == [kind |-> "null", dm |-> Undefined]

Member(k, v) == [key |-> k, val |-> v]

JsonText(kind, members) == [kind |-> kind, members |-> members]

RECURSIVE BuildObject(_, _)
BuildObject(members, acc) ==
    IF members = <<>> THEN acc
    ELSE BuildObject(Tail(members), ObjSet(acc, Head(members).key, Head(members).val))

\* JSON.parse throws a SyntaxError
ParseThrows(text) == text.kind = "garbage"

\* JSON.parse: the value, an object's members becoming its properties
JsonParse(text) ==
    [kind  |-> text.kind,
     props |-> IF text.kind = "object" THEN BuildObject(text.members, <<>>)
               ELSE text.members]

\* JSON.stringify(translationsObject, null, 2): the object's own properties
\* in enumeration order; a defaultMessage that is undefined is left out
JsonStringify(props) == JsonText("object", props)

EmptyObject == [kind |-> "object", props |-> <<>>]

\* Object.entries(jsonData) throws a TypeError on null
ObjectEntriesThrows(data) == data.kind = "null"

\* Object.entries: the own enumerable string-keyed properties
ObjectEntries(data) == IF data.kind = "number" THEN <<>> ELSE data.props

\* `value.defaultMessage` throws a TypeError when value is null
DefaultMessageThrows(val) == val.kind = "null"

DefaultMessage(val) == IF val.kind = "object" THEN val.dm ELSE Undefined

\* Object.prototype.hasOwnProperty.call(data, id); a TypeError on null
HasOwnThrows(data) == data.kind = "null"

HasOwn(data, id) ==
    \/ data.kind \in {"object", "array", "string"} /\ HasKey(data.props, id)
    \/ data.kind \in {"array", "string"} /\ id = LengthKey

\* `data[id]?.defaultMessage`
GetDefaultMessage(data, id) ==
    IF data.kind \in {"object", "array", "string"} /\ HasKey(data.props, id)
    THEN DefaultMessage(data.props[KeyIndex(data.props, id)].val)
    ELSE Undefined

\* ---------------------------------------------------------------- inputs
KeyA == <<"a">>
Key0 == <<"0">>
Key1 == <<"1">>
Blank == <<" ">>
ValX == <<"x">>

NameA == <<"a">> \o JsonExt
NameB == <<"b">> \o JsonExt \o <<"l">> \o JsonExt

\* {"a": {"defaultMessage": "x"}, "1": {"defaultMessage": " "}}
TextA1 == JsonText("object", <<Member(KeyA, MsgVal(ValX)), Member(Key1, MsgVal(Blank))>>)
\* {"a": null}
TextNullMember == JsonText("object", <<Member(KeyA, NullVal)>>)
\* text that is no JSON
TextGarbage == JsonText("garbage", <<>>)
\* null
TextNull == JsonText("null", <<>>)
\* {"1": {}}
TextNoMsg == JsonText("object", <<Member(Key1, MsgVal(Undefined))>>)

File(name, text) == [name |-> name, text |-> text]

\* the files the user may select
Files ==
    {File(NameA, TextA1), File(NameB, TextNoMsg), File(NameB, TextNullMember),
     File(NameB, TextGarbage), File(NameB, TextNull)}

\* the readings Date.now() may give, in milliseconds
ClockReadings == {1, 2}

\* the texts the user may type into a key field and into a value field
EditKeys   == {Key0, ProtoKey}
EditValues == {ValX}

\* ----------------------------------------------------------------- state
VARIABLES
    translationEntries,   \* useState: the rows, each [id, key, defaultMessage]
    originalData,         \* useState: the parsed object of the last load
    fileName,             \* useState: the displayed file name
    isDownloadModalOpen,  \* useState: the filename dialog is open
    downloadFileName,     \* useState: the text of the dialog's name field
    readers,              \* the FileReaders whose read has not completed
    now,                  \* the last reading of Date.now()
    crashed,              \* a render threw: the component is unmounted
    uploads,              \* number of file selections so far
    alerted,              \* the last step raised the alert
    lastRead,             \* the read whose onload ran in the last step
    download,             \* the file the last step handed to the browser
    loadedFrom            \* the name of the file the rows were last set from

vars == <<translationEntries, originalData, fileName, isDownloadModalOpen,
          downloadFileName, readers, now, crashed, uploads, alerted, lastRead,
          download, loadedFrom>>

Entry(id, key, dm) == [id |-> id, key |-> key, defaultMessage |-> dm]

Rows == 1..Len(translationEntries)

\* a value that is truthy in `entry.defaultMessage && ...`
Truthy(dm) == dm /= EmptyStr /\ dm /= Undefined

isNewTranslation(data, entry) == ~HasOwn(data, entry.id)

\* mutant of isModified: an edited key counts as a modification
isModifiedOrRenamed(data, entry) ==
    \/ GetDefaultMessage(data, entry.id) /= entry.defaultMessage
    \/ ~HasOwn(data, entry.id)
    \/ entry.key /= entry.id

isModified(data, entry) ==
    \/ GetDefaultMessage(data, entry.id) /= entry.defaultMessage
    \/ ~HasOwn(data, entry.id)

\* `.trim()` of a defaultMessage that is no string throws a TypeError
TrimThrows(dm) == dm = Undefined

isEmptyNewEntry(data, entry) ==
    isNewTranslation(data, entry)
        /\ (Trim(entry.key) = EmptyStr \/ Trim(entry.defaultMessage) = EmptyStr)

\* evaluating isEmptyNewEntry / isNewTranslation / isModified for a row throws
RowThrows(data, entry) ==
    \/ HasOwnThrows(data)
    \/ /\ isNewTranslation(data, entry)
       /\ Trim(entry.key) /= EmptyStr
       /\ TrimThrows(entry.defaultMessage)

\* rendering the table throws: the component is unmounted
RenderThrows(entries, data) ==
    \E i \in 1..Len(entries) : RowThrows(data, entries[i])

showDownloadButton == Len(translationEntries) > 0

\* the open dialog is modal: the page behind it takes no input
ModalBlocks == isDownloadModalOpen

Init ==
    /\ translationEntries = <<>>
    /\ originalData = EmptyObject
    /\ fileName = EmptyStr
    /\ isDownloadModalOpen = FALSE
    /\ downloadFileName = EmptyStr
    /\ readers = <<>>
    /\ now = 0
    /\ crashed = FALSE
    /\ uploads = 0
    /\ alerted = FALSE
    /\ lastRead = <<>>
    /\ download = <<>>
    /\ loadedFrom = <<>>

\* what a step that is no read completion and no download leaves behind
NoOutput == alerted' = FALSE /\ lastRead' = <<>> /\ download' = <<>>

\* --------------------------------------------------------------- actions
\* handleFileUpload: the name is displayed at once, the read is started
SelectFile(file) ==
    /\ ~crashed
    /\ ~ModalBlocks
    /\ uploads < MaxUploads
    /\ uploads' = uploads + 1
    /\ fileName' = file.name
    /\ readers' = Append(readers, [name |-> file.name, text |-> file.text])
    /\ NoOutput
    /\ UNCHANGED <<translationEntries, originalData, isDownloadModalOpen,
                   downloadFileName, now, crashed, loadedFrom>>

\* mutant of MapEntries: the id is taken from the value, not from the key
MapEntriesIdFromValue(props) ==
    [i \in 1..Len(props) |->
        Entry(DefaultMessage(props[i].val), props[i].key, DefaultMessage(props[i].val))]

\* the entries Object.entries(jsonData).map(...) gives
RECURSIVE MapEntries(_)
MapEntries(props) ==
    IF props = <<>> THEN <<>>
    ELSE <<Entry(Head(props).key, Head(props).key, DefaultMessage(Head(props).val))>>
            \o MapEntries(Tail(props))

\* the map callback throws on some property
MapThrows(props) == \E i \in 1..Len(props) : DefaultMessageThrows(props[i].val)

RemoveAt(seq, i) == SubSeq(seq, 1, i - 1) \o SubSeq(seq, i + 1, Len(seq))

\* reader.onload of the i-th pending read: the try block up to the first
\* exception, the catch block, then one render of the resulting state
ReadDone(i) ==
    /\ ~crashed
    /\ i \in 1..Len(readers)
    /\ readers' = RemoveAt(readers, i)
    /\ lastRead' = <<readers[i]>>
    /\ download' = <<>>
    /\ LET text     == readers[i].text
           jsonData == JsonParse(text)
       IN  IF ParseThrows(text)
           THEN /\ alerted' = TRUE
                /\ UNCHANGED <<originalData, translationEntries>>
           ELSE /\ originalData' = jsonData
                /\ IF ObjectEntriesThrows(jsonData) \/ MapThrows(ObjectEntries(jsonData))
                   THEN /\ alerted' = TRUE
                        /\ UNCHANGED translationEntries
                   ELSE /\ alerted' = FALSE
                        /\ translationEntries' = MapEntries(ObjectEntries(jsonData))
    /\ loadedFrom' = IF alerted' THEN loadedFrom ELSE <<readers[i].name>>
    /\ crashed' = RenderThrows(translationEntries', originalData')
    /\ UNCHANGED <<fileName, isDownloadModalOpen, downloadFileName, now, uploads>>

\* entries.map(entry => entry.id === id ? {...entry, key: newKey} : entry)
MapKey(entries, id, newKey) ==
    [j \in 1..Len(entries) |->
        IF entries[j].id = id THEN [entries[j] EXCEPT !.key = newKey] ELSE entries[j]]

\* entries.map(entry => entry.id === id ? {...entry, defaultMessage: v} : entry)
MapValue(entries, id, newTranslation) ==
    [j \in 1..Len(entries) |->
        IF entries[j].id = id THEN [entries[j] EXCEPT !.defaultMessage = newTranslation]
        ELSE entries[j]]

\* an edit of the table: the new rows, then one render
Edit(entries) ==
    /\ ~ModalBlocks
    /\ translationEntries' = entries
    /\ crashed' = RenderThrows(entries, originalData)
    /\ NoOutput
    /\ UNCHANGED <<originalData, fileName, isDownloadModalOpen, downloadFileName,
                   readers, now, uploads, loadedFrom>>

\* handlePropertyChange, from the key field of row i
SetKey(i, newKey) ==
    /\ ~crashed
    /\ i \in Rows
    /\ Edit(MapKey(translationEntries, translationEntries[i].id, newKey))

\* handleTranslationChange, from the value field of row i
SetValue(i, newTranslation) ==
    /\ ~crashed
    /\ i \in Rows
    /\ Edit(MapValue(translationEntries, translationEntries[i].id, newTranslation))

\* handleClearTranslation, from the X button of row i (shown for a truthy value)
ClearValue(i) ==
    /\ ~crashed
    /\ i \in Rows
    /\ Truthy(translationEntries[i].defaultMessage)
    /\ Edit(MapValue(translationEntries, translationEntries[i].id, EmptyStr))

\* mutant of ClearTruthy: only the first row is looked at
ClearTruthyFirstRow(entries) ==
    [j \in 1..Len(entries) |->
        IF j = 1 /\ Truthy(entries[j].defaultMessage)
        THEN [entries[j] EXCEPT !.defaultMessage = EmptyStr] ELSE entries[j]]

\* entries.map(entry => entry.defaultMessage ? {...entry, defaultMessage: ''} : entry)
ClearTruthy(entries) ==
    [j \in 1..Len(entries) |->
        IF Truthy(entries[j].defaultMessage)
        THEN [entries[j] EXCEPT !.defaultMessage = EmptyStr] ELSE entries[j]]

\* the clear-column button (shown when some value is truthy)
ClearAllValues ==
    /\ ~crashed
    /\ \E i \in Rows : Truthy(translationEntries[i].defaultMessage)
    /\ Edit(ClearTruthy(translationEntries))

\* the row addNewTranslation creates
NewEntry(clock) == Entry(NumToString(clock), EmptyStr, EmptyStr)

\* mutant of AddRow: the new row is put in front of the list
AddRowInFront(clock) ==
    /\ ~crashed
    /\ ~ModalBlocks
    /\ showDownloadButton
    /\ Len(translationEntries) < MaxRows
    /\ clock >= now
    /\ now' = clock
    /\ translationEntries' = <<NewEntry(clock)>> \o translationEntries
    /\ crashed' = RenderThrows(translationEntries', originalData)
    /\ NoOutput
    /\ UNCHANGED <<originalData, fileName, isDownloadModalOpen, downloadFileName,
                   readers, uploads, loadedFrom>>

\* addNewTranslation, from the floating button (shown when the table has
\* rows); the clock reads `clock`, no earlier than its last reading
AddRow(clock) ==
    /\ ~crashed
    /\ ~ModalBlocks
    /\ showDownloadButton
    /\ Len(translationEntries) < MaxRows
    /\ clock >= now
    /\ now' = clock
    /\ translationEntries' = Append(translationEntries, NewEntry(clock))
    /\ crashed' = RenderThrows(translationEntries', originalData)
    /\ NoOutput
    /\ UNCHANGED <<originalData, fileName, isDownloadModalOpen, downloadFileName,
                   readers, uploads, loadedFrom>>

\* ---------------------------------------------------------------- export
EndsWith(s, suffix) ==
    Len(s) >= Len(suffix) /\ SubSeq(s, Len(s) - Len(suffix) + 1, Len(s)) = suffix

Occurs(s, pat, i) == i + Len(pat) - 1 <= Len(s) /\ SubSeq(s, i, i + Len(pat) - 1) = pat

\* fileName.replace('.json', ''): the first occurrence is removed
ReplaceFirstJson(s) ==
    IF \E i \in 1..Len(s) : Occurs(s, JsonExt, i)
    THEN LET i == CHOOSE i \in 1..Len(s) :
                    Occurs(s, JsonExt, i) /\ \A j \in 1..(i - 1) : ~Occurs(s, JsonExt, j)
         IN  SubSeq(s, 1, i - 1) \o SubSeq(s, i + Len(JsonExt), Len(s))
    ELSE s

\* downloadFileName.replace(/\.json$/, '')
StripJsonSuffix(s) ==
    IF EndsWith(s, JsonExt) THEN SubSeq(s, 1, Len(s) - Len(JsonExt)) ELSE s

\* handleDownloadClick, from a download button (shown when the table has rows)
DownloadClick ==
    /\ ~crashed
    /\ ~ModalBlocks
    /\ showDownloadButton
    /\ downloadFileName' = (IF ReplaceFirstJson(fileName) = EmptyStr THEN DefaultName
                            ELSE ReplaceFirstJson(fileName))
    /\ isDownloadModalOpen' = TRUE
    /\ NoOutput
    /\ UNCHANGED <<translationEntries, originalData, fileName, readers, now, crashed,
                   uploads, loadedFrom>>

\* the texts the user may type into the dialog's name field
DialogNames == {KeyA}

\* onChange of the dialog's name field
SetDownloadFileName(name) ==
    /\ ~crashed
    /\ isDownloadModalOpen
    /\ downloadFileName' = name
    /\ NoOutput
    /\ UNCHANGED <<translationEntries, originalData, fileName, isDownloadModalOpen,
                   readers, now, crashed, uploads, loadedFrom>>

\* mutant of CancelDownload: cancelling also forgets the displayed file name
CancelDownloadForgetsName ==
    /\ ~crashed
    /\ isDownloadModalOpen
    /\ isDownloadModalOpen' = FALSE
    /\ fileName' = EmptyStr
    /\ NoOutput
    /\ UNCHANGED <<translationEntries, originalData, downloadFileName, readers, now,
                   crashed, uploads, loadedFrom>>

\* the Cancelar button, or the dialog's onOpenChange(false)
CancelDownload ==
    /\ ~crashed
    /\ isDownloadModalOpen
    /\ isDownloadModalOpen' = FALSE
    /\ NoOutput
    /\ UNCHANGED <<translationEntries, originalData, fileName, downloadFileName,
                   readers, now, crashed, uploads, loadedFrom>>

\* mutant of IsValidEntry: the value of a new entry is not looked at
IsValidEntryKeyOnly(data, entry) ==
    ~isNewTranslation(data, entry) \/ Trim(entry.key) /= EmptyStr

\* the filter of downloadJSON keeps the entry
IsValidEntry(data, entry) ==
    \/ ~isNewTranslation(data, entry)
    \/ (Trim(entry.key) /= EmptyStr /\ Trim(entry.defaultMessage) /= EmptyStr)

validEntries(entries, data) == SelectSeq(entries, LAMBDA e : IsValidEntry(data, e))

\* validEntries.reduce((acc, entry) => { acc[entry.key] = {...}; return acc }, {})
RECURSIVE ReduceEntries(_, _)
ReduceEntries(entries, acc) ==
    IF entries = <<>> THEN acc
    ELSE ReduceEntries(Tail(entries),
                       AccSet(acc, Head(entries).key, MsgVal(Head(entries).defaultMessage)))

translationsObject(entries, data) == ReduceEntries(validEntries(entries, data), <<>>)

\* the text of the downloaded file
ExportText(entries, data) == JsonStringify(translationsObject(entries, data))

\* mutant of ConfirmDownload: the export also empties the table
ConfirmDownloadDropsRows ==
    /\ ~crashed
    /\ isDownloadModalOpen
    /\ download' = <<[name |-> StripJsonSuffix(downloadFileName) \o JsonExt,
                      text |-> ExportText(translationEntries, originalData)]>>
    /\ isDownloadModalOpen' = FALSE
    /\ translationEntries' = <<>>
    /\ alerted' = FALSE
    /\ lastRead' = <<>>
    /\ UNCHANGED <<originalData, fileName, downloadFileName, readers, now, crashed,
                   uploads, loadedFrom>>

\* downloadJSON, from the Descargar button of the dialog.  (A row on which
\* the filter would throw makes the render throw first, see RowThrows.)
ConfirmDownload ==
    /\ ~crashed
    /\ isDownloadModalOpen
    /\ download' = <<[name |-> StripJsonSuffix(downloadFileName) \o JsonExt,
                      text |-> ExportText(translationEntries, originalData)]>>
    /\ isDownloadModalOpen' = FALSE
    /\ alerted' = FALSE
    /\ lastRead' = <<>>
    /\ UNCHANGED <<translationEntries, originalData, fileName, downloadFileName,
                   readers, now, crashed, uploads, loadedFrom>>

Next ==
    \/ \E file \in Files : SelectFile(file)
    \/ \E i \in 1..MaxUploads : ReadDone(i)
    \/ \E i \in 1..MaxRows, k \in EditKeys : SetKey(i, k)
    \/ \E i \in 1..MaxRows, v \in EditValues : SetValue(i, v)
    \/ \E i \in 1..MaxRows : ClearValue(i)
    \/ ClearAllValues
    \/ \E clock \in ClockReadings : AddRow(clock)
    \/ DownloadClick
    \/ \E name \in DialogNames : SetDownloadFileName(name)
    \/ CancelDownload
    \/ ConfirmDownload

Spec == Init /\ [][Next]_vars

\* ==================================================================
\* The claims
\* ==================================================================

\* the shape the specification asks of a file: a top-level object whose
\* member values are all objects with a string defaultMessage
ValidShape(text) ==
    /\ text.kind = "object"
    /\ \A i \in 1..Len(text.members) :
          text.members[i].val.kind = "object" /\ text.members[i].val.dm /= Undefined

\* the step just taken ran reader.onload
ReadCompleted == lastRead /= <<>>

\* the own property names of the snapshot
SnapshotKeys == {originalData.props[i].key : i \in 1..Len(originalData.props)}

\* C1: when a file read fails, the entry list, the OriginalSnapshot and the
\* displayed file name are what they were before the file was selected: a
\* failed read of the first file selected leaves the initial state, and the
\* completion of a failed read changes none of the three.
C1_FailedReadChangesNothing ==
    /\ []((ReadCompleted /\ alerted /\ uploads = 1) =>
            /\ translationEntries = <<>>
            /\ originalData = EmptyObject
            /\ fileName = EmptyStr)
    /\ [][(lastRead' /= <<>> /\ alerted') =>
            /\ translationEntries' = translationEntries
            /\ originalData' = originalData
            /\ fileName' = fileName]_vars

\* C2: every content that is not of the valid shape is an import failure:
\* the user is notified and no entry list is produced from it.
C2_InvalidShapeIsFailure ==
    [][(lastRead' /= <<>> /\ ~ValidShape(lastRead'[1].text)) =>
            (alerted' /\ translationEntries' = translationEntries)]_vars

\* C3: a failed import never crashes the component: after the read of a
\* content that is not of the valid shape the component is still mounted.
C3_FailedImportNeverCrashes ==
    (ReadCompleted /\ ~ValidShape(lastRead[1].text)) => ~crashed

\* C4: when a read of valid content completes, the entry list is one entry
\* per property of the parsed object, in its enumeration order, with
\* id = key = property name and value = defaultMessage, and the
\* OriginalSnapshot is the parsed object; nothing of the previous list stays.
C4_ValidReadReplacesDocument ==
    [][(lastRead' /= <<>> /\ ValidShape(lastRead'[1].text)) =>
            LET parsed == JsonParse(lastRead'[1].text)
            IN  /\ originalData' = parsed
                /\ Len(translationEntries') = Len(parsed.props)
                /\ \A i \in 1..Len(parsed.props) :
                      /\ translationEntries'[i].id = parsed.props[i].key
                      /\ translationEntries'[i].key = parsed.props[i].key
                      /\ translationEntries'[i].defaultMessage = parsed.props[i].val.dm
                /\ ~alerted']_vars

\* C4 witness: a valid two-member file has just replaced an earlier load
C4_Witness ==
    /\ ReadCompleted
    /\ ValidShape(lastRead[1].text)
    /\ uploads = MaxUploads
    /\ readers = <<>>
    /\ Len(translationEntries) > 1

\* the step just taken ran downloadJSON
Downloaded == download /= <<>>

\* the entry belongs to the export set as the specification defines it
InExportSet(entry) ==
    \/ entry.id \in SnapshotKeys
    \/ (Trim(entry.key) /= EmptyStr /\ Trim(entry.defaultMessage) /= EmptyStr)

\* the rows of the export set, in list order
ExportRows == {i \in Rows : InExportSet(translationEntries[i])}

\* C5: the export set is every entry that is not new, whatever its key and
\* value, and every new entry whose trimmed key and trimmed value are both
\* non-empty; the downloaded object is built by inserting exactly these
\* entries in list order.
C5_ExportSet ==
    Downloaded =>
        download[1].text =
            JsonText("object", ReduceEntries(SelectSeq(translationEntries, InExportSet), <<>>))

\* C5 witness: a download that keeps a loaded row whose value was cleared and
\* drops a new row that is incomplete
C5_Witness ==
    /\ Downloaded
    /\ \E i \in Rows :
          /\ translationEntries[i].id \in SnapshotKeys
          /\ translationEntries[i].defaultMessage = EmptyStr
          /\ HasKey(download[1].text.members, translationEntries[i].key)
    /\ \E i \in Rows :
          /\ translationEntries[i].id \notin SnapshotKeys
          /\ Trim(translationEntries[i].key) /= EmptyStr
          /\ Trim(translationEntries[i].defaultMessage) = EmptyStr
          /\ ~HasKey(download[1].text.members, translationEntries[i].key)

\* no two rows share an id
C6_IdsDistinct ==
    \A i \in Rows, j \in Rows :
        translationEntries[i].id = translationEntries[j].id => i = j

\* C6: when two or more entries of the export set have the same key text,
\* the exported object has that key once and its defaultMessage is the value
\* of the entry that is latest in list order.  (Stated for lists whose ids
\* are distinct, so that a violation owes nothing to C9.)
C6_DuplicateKeyLastWins ==
    (Downloaded /\ C6_IdsDistinct) =>
        \A i \in ExportRows, j \in ExportRows :
            (i < j /\ translationEntries[i].key = translationEntries[j].key
                /\ \A l \in ExportRows :
                      translationEntries[l].key = translationEntries[j].key => l <= j)
            => LET members == download[1].text.members
                   k == translationEntries[j].key
               IN  /\ Cardinality({m \in 1..Len(members) : members[m].key = k}) = 1
                   /\ \A m \in 1..Len(members) :
                         members[m].key = k =>
                            members[m].val.dm = translationEntries[j].defaultMessage

\* the (key, value) pairs of an entry list, in order
Pairs(entries) ==
    [i \in 1..Len(entries) |-> <<entries[i].key, entries[i].defaultMessage>>]

\* the entry list an import of the text gives
Imported(text) == MapEntries(ObjectEntries(JsonParse(text)))

\* C7: for every entry list with no new-incomplete row and no duplicate key,
\* importing the exported content gives the same (key, value) pairs in the
\* same order, also for keys that look like non-negative integers.  (Stated
\* for the key texts other than "__proto__", whose loss is C6's.)
C7_RoundTrip ==
    (/\ ~crashed
     /\ \A i \in Rows : ~isEmptyNewEntry(originalData, translationEntries[i])
     /\ \A i \in Rows : translationEntries[i].key /= ProtoKey
     /\ \A i \in Rows, j \in Rows :
            translationEntries[i].key = translationEntries[j].key => i = j)
    => Pairs(Imported(ExportText(translationEntries, originalData)))
            = Pairs(translationEntries)

\* the key text and the value text the row had when it was created
OriginalKey(entry) == IF HasOwn(originalData, entry.id) THEN entry.id ELSE EmptyStr

OriginalValue(entry) ==
    IF HasOwn(originalData, entry.id) THEN GetDefaultMessage(originalData, entry.id)
    ELSE EmptyStr

\* C8: isModified is false for every entry right after a successful import,
\* and true right after a setValue or a setKey that changes the entry's
\* value text or key text away from the original.
C8_ModifiedAfterEdit ==
    [][/\ (lastRead' /= <<>> /\ ~alerted') =>
            \A i \in 1..Len(translationEntries') :
                ~isModified(originalData', translationEntries'[i])
       /\ \A i \in Rows, v \in EditValues :
            (SetValue(i, v) /\ v /= OriginalValue(translationEntries[i]))
                => isModified(originalData', translationEntries'[i])
       /\ \A i \in Rows, k \in EditKeys :
            (SetKey(i, k) /\ k /= OriginalKey(translationEntries[i]))
                => isModified(originalData', translationEntries'[i])]_vars

\* C9: the ids of the entries in the list are pairwise distinct.
C9_IdsDistinct ==
    Cardinality({translationEntries[i].id : i \in Rows}) = Len(translationEntries)

\* C10: an export performed right after addRow does not contain the new
\* blank row: the row just appended contributes no property to the output.
C10_NewRowNotExported ==
    [][\A clock \in ClockReadings :
            AddRow(clock) =>
                ExportText(translationEntries', originalData')
                    = ExportText(translationEntries, originalData)]_vars

\* C11: confirming an export changes nothing of the document state: the
\* entry list, the OriginalSnapshot and the displayed file name are the same
\* after the step that emits the download as before it; of the component's
\* state only the dialog changes, from open to closed.
C11_ExportChangesOnlyDialog ==
    [][download' /= <<>> =>
            /\ translationEntries' = translationEntries
            /\ originalData' = originalData
            /\ fileName' = fileName
            /\ downloadFileName' = downloadFileName
            /\ isDownloadModalOpen /\ ~isDownloadModalOpen']_vars

\* C11 witness: an export of a loaded and edited table has just been confirmed
C11_Witness ==
    /\ Downloaded
    /\ ~isDownloadModalOpen
    /\ fileName /= EmptyStr
    /\ originalData /= EmptyObject
    /\ \E i \in Rows : isModified(originalData, translationEntries[i])

\* C12: the filename dialog starts closed; it goes from closed to open only
\* by a download click and from open to closed only by cancel or by confirm;
\* a download is emitted only by a confirm taken while the dialog is open,
\* exactly one per confirm; a cancel emits no download and changes neither
\* the entry list, nor the OriginalSnapshot, nor the displayed file name.
C12_DialogMachine ==
    /\ ~isDownloadModalOpen
    /\ [][/\ (~isDownloadModalOpen /\ isDownloadModalOpen') => DownloadClick
          /\ (isDownloadModalOpen /\ ~isDownloadModalOpen') =>
                (CancelDownload \/ ConfirmDownload)
          /\ download' /= <<>> => (isDownloadModalOpen /\ ConfirmDownload)
          /\ ConfirmDownload => Len(download') = 1
          /\ CancelDownload => download' = <<>>
          /\ (isDownloadModalOpen /\ ~isDownloadModalOpen' /\ download' = <<>>) =>
                /\ translationEntries' = translationEntries
                /\ originalData' = originalData
                /\ fileName' = fileName]_vars

\* C12 witness: the dialog was opened, a name was typed into it and the
\* confirm has just closed it, emitting one download under that name
C12_Witness ==
    /\ ~isDownloadModalOpen
    /\ Len(download) = 1
    /\ download[1].name = KeyA \o JsonExt
    /\ downloadFileName = KeyA

\* the row has a value text that is not empty
NonEmptyValue(entry) ==
    entry.defaultMessage /= Undefined /\ Len(entry.defaultMessage) > 0

\* C13: clearAllValues sets the value of every row whose value is non-empty
\* to the empty string and leaves every other row, every key, every id, the
\* length and the order unchanged; applied to its own result it changes
\* nothing (applying it twice yields the same list as applying it once).
C13_ClearAllSelectiveIdempotent ==
    [][ClearAllValues =>
            /\ Len(translationEntries') = Len(translationEntries)
            /\ \A i \in Rows :
                  /\ translationEntries'[i].id = translationEntries[i].id
                  /\ translationEntries'[i].key = translationEntries[i].key
                  /\ translationEntries'[i].defaultMessage =
                        IF NonEmptyValue(translationEntries[i]) THEN EmptyStr
                        ELSE translationEntries[i].defaultMessage
            /\ ClearTruthy(translationEntries') = translationEntries'
            /\ \A i \in Rows : ~NonEmptyValue(translationEntries'[i])]_vars

\* C13 witness: a two-row table whose values were "x" and " " in the
\* snapshot and are both empty now, keys and order as loaded
C13_Witness ==
    /\ Len(translationEntries) = 2
    /\ \A i \in Rows :
          /\ translationEntries[i].defaultMessage = EmptyStr
          /\ translationEntries[i].key = translationEntries[i].id
          /\ HasOwn(originalData, translationEntries[i].id)
          /\ GetDefaultMessage(originalData, translationEntries[i].id) /= EmptyStr
    /\ lastRead = <<>>
    /\ download = <<>>

\* the initial empty state: no file loaded, no read pending, no rows
EmptyState ==
    /\ translationEntries = <<>>
    /\ originalData = EmptyObject
    /\ fileName = EmptyStr
    /\ readers = <<>>
    /\ ~isDownloadModalOpen
    /\ ~crashed

\* the entry list of the scenario: a first new row completed with a key
\* and a value, then a second new row left untouched
ScenarioRows == <<Entry(NumToString(1), KeyA, ValX), NewEntry(2)>>

\* the export of the scenario's rows over the empty snapshot has exactly the
\* first row's property
ScenarioExport ==
    ExportText(ScenarioRows, EmptyObject) = JsonText("object", <<Member(KeyA, MsgVal(ValX))>>)

\* C14: starting from the initial empty state the sequence addRow, setKey,
\* setValue, addRow, export can be performed and yields exactly the one
\* completed property: in the empty state addRow can be taken, and the
\* export of the scenario's two rows has exactly the first row's property.
C14_ScenarioFromEmpty ==
    /\ EmptyState => ENABLED (\E clock \in ClockReadings : AddRow(clock))
    /\ ScenarioExport

\* C15: at most one file read is in flight at any time, so that read
\* completions cannot be applied in an order other than that of the
\* selections.
C15_OneReadInFlight == Len(readers) <= 1

\* C16: setKey, setValue and clearValue change exactly one field of exactly
\* one row: setKey only the key of the edited row, setValue and clearValue
\* only its value, clearValue giving the list setValue(id, "") gives; every
\* other row, the other field, every id, the length and the order stay.
C16_EditsOneField ==
    [][\A i \in Rows :
          /\ \A k \in EditKeys :
                SetKey(i, k) =>
                    translationEntries' = [translationEntries EXCEPT ![i].key = k]
          /\ \A v \in EditValues :
                SetValue(i, v) =>
                    translationEntries' =
                        [translationEntries EXCEPT ![i].defaultMessage = v]
          /\ ClearValue(i) =>
                /\ translationEntries' =
                        [translationEntries EXCEPT ![i].defaultMessage = EmptyStr]
                /\ translationEntries' =
                        MapValue(translationEntries, translationEntries[i].id, EmptyStr)]_vars

\* C17: the OriginalSnapshot changes only when a file read of valid content
\* completes: no edit, no addRow, no dialog step, no file selection and no
\* failed file read changes it.
C17_SnapshotChangesOnlyOnValidRead ==
    [][originalData' /= originalData =>
            (lastRead' /= <<>> /\ ValidShape(lastRead'[1].text) /\ ~alerted')]_vars

\* the sequence of the ids of an entry list
Ids(entries) == [i \in 1..Len(entries) |-> entries[i].id]

\* the step just taken completed a load: a read that ended without failure
LoadCompleted == lastRead /= <<>> /\ ~alerted

\* C18: between two successful loads the entry list is append-only: in
\* every step that is not a completed load the sequence of entry ids is the
\* one before the step, or that one with one id appended at its end; no row
\* is removed and no two rows change their relative order.  (That the
\* appended id differs from the ids already there is C9's subject.)
C18_AppendOnly ==
    [][~LoadCompleted' =>
            \/ Ids(translationEntries') = Ids(translationEntries)
            \/ /\ Len(translationEntries') = Len(translationEntries) + 1
               /\ SubSeq(Ids(translationEntries'), 1, Len(translationEntries))
                    = Ids(translationEntries)]_vars

\* C18 witness: a row was appended behind a loaded row that has been edited
C18_Witness ==
    /\ Len(translationEntries) = 2
    /\ ~LoadCompleted
    /\ HasOwn(originalData, translationEntries[1].id)
    /\ translationEntries[1].key /= translationEntries[1].id
    /\ ~HasOwn(originalData, translationEntries[2].id)
    /\ translationEntries[2].id = NumToString(now)

\* C19: when the download dialog opens, its prefilled name is the name of
\* the currently loaded file (the file whose content produced the current
\* entry list) with its trailing ".json" removed and nothing else changed,
\* or "translations" when no file has been loaded.
C19_PrefilledName ==
    [][(~isDownloadModalOpen /\ isDownloadModalOpen') =>
            downloadFileName' =
                IF loadedFrom = <<>> THEN DefaultName
                ELSE StripJsonSuffix(loadedFrom[1])]_vars

\* the entry is new as the specification defines it: its id is not a
\* property of the snapshot
IsNewEntry(entry) == entry.id \notin SnapshotKeys

\* the defaultMessage the snapshot has for a property name it has
SnapshotMessage(id) ==
    LET m == CHOOSE m \in 1..Len(originalData.props) : originalData.props[m].key = id
    IN  IF originalData.props[m].val.kind = "object" THEN originalData.props[m].val.dm
        ELSE Undefined

\* the entries the relation is examined on: the rows of the table and, for
\* ids in and out of the snapshot, an entry with and without a value
ProbeEntries ==
    {translationEntries[i] : i \in Rows}
        \cup {Entry(id, EmptyStr, v) : id \in {KeyA, Key0, Key1}, v \in {EmptyStr, ValX}}

\* C20: for every entry and every OriginalSnapshot, isModified(entry) is
\* true exactly when the entry is new or the snapshot's defaultMessage for
\* its id differs from the entry's value; the key text has no influence.
C20_IsModifiedDefinition ==
    ~crashed =>
        \A e \in ProbeEntries :
            /\ isModified(originalData, e)
                    <=> (IsNewEntry(e) \/ SnapshotMessage(e.id) /= e.defaultMessage)
            /\ \A k \in {KeyA, ProtoKey} :
                    isModified(originalData, [e EXCEPT !.key = k])
                        <=> isModified(originalData, e)

\* C20 witness: a loaded row whose key was edited and whose value is the
\* snapshot's (not modified) next to a loaded row whose value was cleared
\* (modified)
C20_Witness ==
    /\ ~crashed
    /\ \E i \in Rows :
          /\ ~IsNewEntry(translationEntries[i])
          /\ translationEntries[i].key /= translationEntries[i].id
          /\ ~isModified(originalData, translationEntries[i])
    /\ \E i \in Rows :
          /\ ~IsNewEntry(translationEntries[i])
          /\ translationEntries[i].defaultMessage = EmptyStr
          /\ isModified(originalData, translationEntries[i])

\* C21: whenever no file read is pending, the displayed file name, the
\* OriginalSnapshot and the loaded rows all come from the same file, for
\* every interleaving of selections and read completions.  (Stated for the
\* state right after a read of valid content has completed, so that a
\* violation owes nothing to the failed and the invalid imports of C1, C2.)
C21_NameSnapshotRowsSameFile ==
    (readers = <<>> /\ LoadCompleted /\ ValidShape(lastRead[1].text)) =>
        /\ originalData = JsonParse(lastRead[1].text)
        /\ translationEntries = Imported(lastRead[1].text)
        /\ fileName = lastRead[1].name

====
